---- MODULE Spec2Model ----
(***************************************************************************)
(* The device-update state machine of the td_ble integration               *)
(* (custom_components/td_ble/tdlib/parser.py): TDBluetoothDeviceData with   *)
(* its retry loop (update_device), one attempt (_update_device), the        *)
(* identity fetch, the sensor fetch, the disconnect callback and the        *)
(* explicit disconnect().                                                   *)
(*                                                                         *)
(* Text is a sequence of code points, a payload a sequence of bytes         *)
(* (0..255); the empty string is << >>.                                     *)
(***************************************************************************)
EXTENDS Integers, Sequences, FiniteSets, TLC

\* ------------------------------------------------------------------ bounds
\* update_device calls made on the one component instance
MaxCalls == 2
\* largest max_attempts the instance is constructed with
MaxAttempts == 2

\* ------------------------------------------------------------- text values
STR_EMPTY == << >>
\* "TD "
STR_TD_PREFIX == <<84, 68, 32>>
\* "Unknown"
STR_UNKNOWN == <<85, 110, 107, 110, 111, 119, 110>>
\* "Pressure LCR03F"
STR_PRESSURE_LCR03F == <<80, 114, 101, 115, 115, 117, 114, 101, 32, 76, 67, 82, 48, 51, 70>>
\* "TDWLB-LCR03F"
STR_TDWLB_LCR03F == <<84, 68, 87, 76, 66, 45, 76, 67, 82, 48, 51, 70>>
\* "Serial Number"
STR_SERIAL_NUMBER == <<83, 101, 114, 105, 97, 108, 32, 78, 117, 109, 98, 101, 114>>
\* the address of the BLE device handle, "A"
Address == <<65>>

\* bytes.decode("utf-8"): a byte below 0x80 is its own code point; the
\* payloads below hold no multi-byte sequence, only the lone byte 0xFF,
\* which no UTF-8 text contains (UnicodeDecodeError).
Utf8Valid(data) == \A i \in 1..Len(data) : data[i] < 128
Utf8Decode(data) == [i \in 1..Len(data) |-> data[i]]

\* str.strip(): whitespace removed at both ends
IsSpace(c) == c \in {9, 10, 11, 12, 13, 32}
RECURSIVE LStrip(_)
LStrip(s) == IF s # << >> /\ IsSpace(Head(s)) THEN LStrip(Tail(s)) ELSE s
RECURSIVE RStrip(_)
RStrip(s) ==
    IF s # << >> /\ IsSpace(s[Len(s)]) THEN RStrip(SubSeq(s, 1, Len(s) - 1)) ELSE s
Strip(s) == RStrip(LStrip(s))

\* ------------------------------------------------------------ TDDeviceType
\* The members in definition order; UNKNOWN has the value 0, which no text
\* equals.
TDDeviceTypeMembers == <<"UNKNOWN", "PRESSURE_LCR03F">>
ToLower(s) == [i \in 1..Len(s) |-> IF s[i] \in 65..90 THEN s[i] + 32 ELSE s[i]]
\* A comparison that ignores case.
MemberMatchesIgnoreCase(member, value) ==
    member = "PRESSURE_LCR03F" /\ ToLower(value) = ToLower(STR_TDWLB_LCR03F)
\* device_type.value == value
MemberMatches(member, value) == member = "PRESSURE_LCR03F" /\ value = STR_TDWLB_LCR03F

\* __new__ stores the member's value as its raw_value: the integer 0 for
\* UNKNOWN, the model text for PRESSURE_LCR03F.
RawValueInit ==
    [m \in {"UNKNOWN", "PRESSURE_LCR03F"} |->
        IF m = "UNKNOWN" THEN [kind |-> "int", text |-> << >>]
                         ELSE [kind |-> "str", text |-> STR_TDWLB_LCR03F]]

\* from_raw_value: the first member whose value equals the text, else
\* UNKNOWN; the text is stored in the member's raw_value (the members are
\* the process-wide singletons of the enumeration).
from_raw_value(value, raw) ==
    LET hits == {i \in 1..Len(TDDeviceTypeMembers) :
                    MemberMatches(TDDeviceTypeMembers[i], value)}
        member == IF hits # {}
                    THEN TDDeviceTypeMembers[CHOOSE i \in hits : \A j \in hits : i <= j]
                    ELSE "UNKNOWN"
    IN  [member |-> member,
         raw |-> [raw EXCEPT ![member] = [kind |-> "str", text |-> value]]]

product_name(member) ==
    IF member = "PRESSURE_LCR03F" THEN STR_PRESSURE_LCR03F ELSE STR_UNKNOWN

\* bool(member): TDDeviceType defines no __bool__ and mixes in no type, so
\* every member is true, UNKNOWN (value 0) included.
MemberTruthy(member) == member \in {"UNKNOWN", "PRESSURE_LCR03F"}

\* ------------------------------------------------------------- the catalog
device_info_characteristics ==
    << [uuid |-> "CHAR_MANUFACTURER",  name |-> "manufacturer"],
       [uuid |-> "CHAR_SERIAL_NUMBER", name |-> "serial_nr"],
       [uuid |-> "CHAR_DEVICE_NAME",   name |-> "device_name"],
       [uuid |-> "CHAR_FIRMWARE_REV",  name |-> "firmware_rev"] >>

sensors_characteristics ==
    {"CHAR_TEMPERATURE", "CHAR_BATTERY", "CHAR_PRESSURE", "CHAR_MAXPRESSURE"}

\* A decoder is (name, format, scale, max_value); the scale 1.0/10.0 is kept
\* as the pair <<1, 10>>; no entry passes a max_value (<< >> is None).
sensor_decoders ==
    [u \in sensors_characteristics |->
        CASE u = "CHAR_PRESSURE" ->
                [name |-> "pressure", format |-> ">h", scale |-> <<1, 10>>, max_value |-> << >>]
          [] u = "CHAR_MAXPRESSURE" ->
                [name |-> "maxpressure", format |-> ">h", scale |-> <<1, 10>>, max_value |-> << >>]
          [] u = "CHAR_TEMPERATURE" ->
                [name |-> "temperature", format |-> ">h", scale |-> <<1, 100>>, max_value |-> << >>]
          [] u = "CHAR_BATTERY" ->
                [name |-> "battery", format |-> "b", scale |-> <<1, 1>>, max_value |-> << >>]]

\* struct.unpack: ">h" takes exactly two bytes, big-endian two's complement;
\* "b" exactly one byte, two's complement; any other length is struct.error.
FormatSize(format) == IF format = ">h" THEN 2 ELSE 1
\* The formats ">H" and "B": the same widths read as unsigned.
StructUnpackUnsigned(format, raw_data) ==
    IF Len(raw_data) # FormatSize(format)
      THEN [error |-> TRUE, val |-> << >>]
      ELSE IF format = ">h"
             THEN [error |-> FALSE, val |-> <<raw_data[1] * 256 + raw_data[2]>>]
             ELSE [error |-> FALSE, val |-> <<raw_data[1]>>]
StructUnpack(format, raw_data) ==
    IF Len(raw_data) # FormatSize(format)
      THEN [error |-> TRUE, val |-> << >>]
      ELSE IF format = ">h"
             THEN LET u == raw_data[1] * 256 + raw_data[2]
                  IN  [error |-> FALSE, val |-> <<IF u >= 32768 THEN u - 65536 ELSE u>>]
             ELSE LET u == raw_data[1]
                  IN  [error |-> FALSE, val |-> <<IF u >= 128 THEN u - 256 ELSE u>>]

\* The value val * scale as the exact fraction <<numerator, denominator>>;
\* a > b on fractions with positive denominators.
Scaled(v, scale) == <<v * scale[1], scale[2]>>
FracGreater(a, b) == a[1] * b[2] > b[1] * a[2]

\* A handler without the test against max_value.
DecodeHandlerNoMax(dec, raw_data) ==
    LET val == StructUnpack(dec.format, raw_data)
    IN  [error |-> val.error, name |-> dec.name,
         res |-> IF ~val.error /\ Len(val.val) = 1
                   THEN <<Scaled(val.val[1], dec.scale)>> ELSE << >>]

\* _decode_attr(...).handler: the decoded reading as {name: res}; res is
\* << >> for None.
DecodeHandler(dec, raw_data) ==
    LET val  == StructUnpack(dec.format, raw_data)
        res0 == IF ~val.error /\ Len(val.val) = 1 THEN <<Scaled(val.val[1], dec.scale)>> ELSE << >>
        res  == IF res0 # << >> /\ dec.max_value # << >> /\ FracGreater(res0[1], dec.max_value[1])
                  THEN << >> ELSE res0
    IN  [error |-> val.error, name |-> dec.name, res |-> res]

\* ---------------------------------------------------------- TDDeviceInfo
\* The field defaults of TDDeviceInfo / TDDevice.
TDDeviceInfoDefaults ==
    [manufacturer |-> STR_EMPTY, fw_version |-> STR_EMPTY, model |-> "UNKNOWN",
     name |-> STR_EMPTY, identifier |-> STR_EMPTY, address |-> STR_EMPTY,
     did_first_sync |-> FALSE]

TDDeviceDefaults == [info |-> TDDeviceInfoDefaults, sensors |-> << >>]

friendly_name(info) == STR_TD_PREFIX \o product_name(info.model)

\* dict.update with one key
DictUpdate(d, k, v) == [x \in (DOMAIN d) \cup {k} |-> IF x = k THEN v ELSE d[x]]

\* ---------------------------------------------- what the device answers
\* Payloads of the model-number characteristic: "TDWLB-LCR03F", the same
\* with surrounding whitespace, "X", and bytes that are no UTF-8 text.
ModelPayloads ==
    {STR_TDWLB_LCR03F, <<32>> \o STR_TDWLB_LCR03F \o <<10>>, <<88>>, <<255>>}

\* Payloads of the identity characteristics, by name.
IdentityPayloads(name) ==
    CASE name = "manufacturer" -> {<<84, 68>>}
      [] name = "serial_nr"    -> {STR_SERIAL_NUMBER, <<83, 49>>}
      [] name = "device_name"  -> {<< >>, <<71>>}
      [] name = "firmware_rev" -> {<<49>>}

\* Payloads of the sensor characteristics: in-width readings and, for
\* battery and pressure, a buffer of the wrong width.
SensorPayloads(uuid) ==
    CASE uuid = "CHAR_TEMPERATURE" -> {<<9, 196>>}
      [] uuid = "CHAR_BATTERY"     -> {<<50>>, <<0, 50>>}
      [] uuid = "CHAR_PRESSURE"    -> {<<0, 100>>, <<100>>}
      [] uuid = "CHAR_MAXPRESSURE" -> {<<255, 156>>}

\* The characteristics the connection's services list, in order: a device
\* with a characteristic outside the catalog and without temperature and
\* maxpressure.
ServiceLists ==
    { <<"CHAR_OTHER", "CHAR_PRESSURE", "CHAR_BATTERY">> }

\* ------------------------------------------------------------------ state
VARIABLES
    persistent,     \* self._persistent
    max_attempts,   \* self.max_attempts
    client,         \* self._client: << >> is None, else the client's identity
    sessions,       \* the clients whose transport link is up
    futDone,        \* the disconnect futures that are done
    device_info,    \* self.device_info
    device,         \* self._device: << >> is None, else <<TDDevice>>
    raw_value,      \* raw_value of each TDDeviceType member
    services,       \* what client.services lists on this device
    pc,             \* where the update task stands
    calls,          \* update_device calls started so far
    attempt,        \* the loop variable of update_device
    rangeN,         \* the length of range(self.max_attempts) of this call
    exc,            \* the exception in flight or raised
    did_first_sync, \* the local of _get_device_characteristics
    arg,            \* the input of a decoder or model resolution applied on its own
    ret,            \* << >>, or <<its result>>
    dpc,            \* where a disconnect() called during an update stands
    idx,            \* the position of the loop over characteristics
    \* history, written and never read by the program
    outcomes,       \* how each finished attempt of this call ended
    reads,          \* the characteristics read so far in this attempt
    established,    \* this attempt established a connection
    notFound,       \* a read of this attempt failed with "not found"
    cleared,        \* clear_cache ran in this attempt
    dcInFetch,      \* the held client's link dropped in this attempt's fetch
    readsAtSignal,  \* << >>, or <<Len(reads)>> when the disconnect future completed
    modelOk,        \* the model read of this attempt returned a model
    readOk,         \* the sensors whose read succeeded and was stored in this call
    placeholderSeen \* the serial read of this attempt returned "Serial Number"

vars == <<persistent, max_attempts, client, sessions, futDone, device_info, device,
          raw_value, services, pc, calls, attempt, rangeN, exc, did_first_sync, idx,
          outcomes, reads, established, notFound, cleared, dcInFetch, readsAtSignal,
          modelOk, readOk, placeholderSeen, arg, ret, dpc>>

\* What no step of an update writes.
progVars == <<persistent, max_attempts, services, arg, ret, dpc>>
hist == <<outcomes, reads, established, notFound, cleared, dcInFetch, readsAtSignal,
          modelOk, readOk, placeholderSeen>>

NoArg == [op |-> "none"]
NoExc == [kind |-> "None", msg |-> ""]
Exc(kind, msg) == [kind |-> kind, msg |-> msg]

\* The future created by this run of _update_device, and the client an
\* establish_connection of this run returns: one per (call, attempt).
disconnect_future == <<calls, attempt>>

\* A check that never finds a connection.
is_connected_never == FALSE
\* A check of the reference alone, without the client's own is_connected.
is_connected_reference_only == client # << >>
\* is_connected
is_connected == client # << >> /\ client \in sessions

\* The task is between calls.
Idle == pc \in {"idle", "returned", "raised"}
\* The task is suspended in a characteristic read of the fetch phase.
InFetch == pc \in {"model", "ident", "sensors"}
\* The task is suspended in some await, or no task runs: the event loop can
\* deliver a transport event.
Suspended == Idle \/ InFetch \/ pc \in {"stale", "establish"}

Init ==
    /\ persistent \in BOOLEAN
    /\ max_attempts \in (-1)..MaxAttempts
    /\ client = << >>
    /\ sessions = {}
    /\ futDone = {}
    /\ device_info = TDDeviceInfoDefaults
    /\ device = << >>
    /\ raw_value = RawValueInit
    /\ services \in ServiceLists
    /\ pc = "idle"
    /\ calls = 0
    /\ attempt = 0
    /\ rangeN = 0
    /\ exc = NoExc
    /\ did_first_sync = FALSE
    /\ idx = 0
    /\ outcomes = << >>
    /\ reads = << >>
    /\ established = FALSE
    /\ notFound = FALSE
    /\ cleared = FALSE
    /\ dcInFetch = FALSE
    /\ readsAtSignal = << >>
    /\ modelOk = FALSE
    /\ readOk = {}
    /\ placeholderSeen = FALSE
    /\ arg = NoArg
    /\ ret = << >>
    /\ dpc = "idle"

\* ------------------------------------------- the transport collaborator
\* The next statement of the task calls through self._client, which raises
\* AttributeError on None: where the task goes and with what.
DerefPc(p) == IF client = << >> THEN "finally" ELSE p
DerefExc(e) == IF client = << >> THEN Exc("AttributeError", "") ELSE e

\* The client a pending read was issued on has its link up: the client
\* held, or, self._client having been set to None since, the session that
\* is still open.
PendingLinked == IF client = << >> THEN sessions # {} ELSE is_connected

\* client.read_gatt_char: on a linked client the payload, or BleakError
\* (characteristic not found, or another transport failure); on a client
\* whose link is down, BleakError.
ReadResults(payloads) ==
    IF PendingLinked
      THEN {[kind |-> "ok", msg |-> "", data |-> p] : p \in payloads}
           \cup {[kind |-> "BleakError", msg |-> m, data |-> << >>] :
                    m \in {"not found", "other"}}
      ELSE {[kind |-> "BleakError", msg |-> "other", data |-> << >>]}

\* The disconnected_callback of a client is partial(_handle_disconnect, f)
\* with f the disconnect future of the run that established the client, and
\* a client is named after that run: the callback of client c completes
\* future c. _handle_disconnect: set the result unless the future is done.
handle_disconnect(fut, done) == IF fut \notin done THEN done \cup {fut} ELSE done

\* A run of _update_device that ends drops its disconnect future; a done
\* future stays of interest only while a held client's callback names it.
Referenced(done, held) == {f \in done : held = f}

\* client.disconnect(): the link goes down and the callback runs.
ClientDisconnect(c) ==
    /\ sessions' = sessions \ {c}
    /\ futDone' = IF c \in sessions THEN handle_disconnect(c, futDone) ELSE futDone

\* ---------------------------------------------------------- update_device
\* A handler that catches every exception.
RetryableAny(e) == e.kind # "None"
\* except DisconnectedError / except BleakError
Retryable(e) == e.kind \in {"DisconnectedError", "BleakError"}
\* len(range(n)): a range to a negative end is empty.
RangeLen(n) == IF n < 0 THEN 0 ELSE n
\* An attempt that never counts as the final one.
is_final_attempt_never == FALSE
\* The final attempt taken one too late.
is_final_attempt_late == attempt = max_attempts
\* is_final_attempt = attempt == self.max_attempts - 1
is_final_attempt == attempt = max_attempts - 1

\* A caller starts update_device(ble_device); range(self.max_attempts) is
\* evaluated once.
UpdateDevice ==
    /\ Idle
    /\ calls < MaxCalls
    /\ calls' = calls + 1
    /\ attempt' = 0
    /\ rangeN' = RangeLen(max_attempts)
    /\ exc' = NoExc
    /\ pc' = "loop"
    /\ outcomes' = << >>
    /\ reads' = << >>
    /\ established' = FALSE
    /\ notFound' = FALSE
    /\ cleared' = FALSE
    /\ dcInFetch' = FALSE
    /\ readsAtSignal' = << >>
    /\ modelOk' = FALSE
    /\ readOk' = {}
    /\ placeholderSeen' = FALSE
    /\ UNCHANGED <<progVars, client, sessions, futDone, device_info, device, raw_value,
                   did_first_sync, idx>>

\* A run that goes to the fetch phase without a connection.
ConnectEntryNoConnect == "enter"
\* A run that goes straight to establish_connection.
ConnectEntrySkipsCleanup == "establish"
\* if not self.is_connected: the stale cleanup comes first.
ConnectEntry == "stale"

\* A device made anew by every run of _update_device.
DeviceFresh(d) == <<TDDeviceDefaults>>
\* if self._device is None: self._device = TDDevice()
DeviceForRun(d) == IF d = << >> THEN <<TDDeviceDefaults>> ELSE d

\* The loop head: the next attempt calls _update_device, which creates the
\* device on first use and a new disconnect future, and connects unless
\* is_connected; a loop that is exhausted falls to the RuntimeError.
LoopHead ==
    /\ pc = "loop"
    /\ IF attempt < rangeN
         THEN /\ device' = DeviceForRun(device)
              /\ pc' = IF ~is_connected THEN ConnectEntry ELSE "enter"
              /\ exc' = NoExc
         ELSE /\ exc' = Exc("RuntimeError", "Should not reach this point")
              /\ pc' = "raised"
              /\ UNCHANGED device
    /\ reads' = << >>
    /\ established' = FALSE
    /\ notFound' = FALSE
    /\ cleared' = FALSE
    /\ dcInFetch' = FALSE
    /\ readsAtSignal' = << >>
    /\ modelOk' = FALSE
    /\ placeholderSeen' = FALSE
    /\ UNCHANGED <<progVars, readOk, client, sessions, futDone, device_info, raw_value,
                   calls, attempt, rangeN, did_first_sync, idx, outcomes>>

\* await close_stale_connections_by_address(ble_device.address)
CloseStale ==
    /\ pc = "stale"
    /\ pc' = "establish"
    /\ UNCHANGED <<progVars, client, sessions, futDone, device_info, device, raw_value,
                   calls, attempt, rangeN, exc, did_first_sync, idx, hist>>

\* establish_connection returns a linked client whose callback is bound to
\* this run's disconnect future.
EstablishOk ==
    /\ pc = "establish"
    /\ client' = disconnect_future
    /\ sessions' = sessions \cup {disconnect_future}
    /\ established' = TRUE
    /\ pc' = "enter"
    /\ UNCHANGED <<progVars, readOk, placeholderSeen, futDone, device_info, device,
                   raw_value, calls, attempt, rangeN, exc, did_first_sync, idx, outcomes,
                   reads, notFound, cleared, dcInFetch, readsAtSignal, modelOk>>

\* establish_connection raises BleakError: the statement is outside the
\* try, so the error leaves _update_device without the finally clause.
EstablishFail ==
    /\ pc = "establish"
    /\ exc' = Exc("BleakError", "other")
    /\ pc' = "handler"
    /\ UNCHANGED <<progVars, client, sessions, futDone, device_info, device, raw_value,
                   calls, attempt, rangeN, did_first_sync, idx, hist>>

\* A loop variable that stays where it is.
NextAttemptSame(a) == a
\* for attempt in range(self.max_attempts): the next value of the loop
NextAttempt(a) == a + 1

\* The except clauses of update_device, entered with the error of the
\* attempt: retry a retryable error unless this is the final attempt, raise
\* everything else.
ExceptClauses ==
    /\ pc = "handler"
    /\ outcomes' = Append(outcomes, exc)
    /\ IF Retryable(exc) /\ ~is_final_attempt
         THEN /\ attempt' = NextAttempt(attempt)
              /\ pc' = "loop"
         ELSE /\ pc' = "raised"
              /\ UNCHANGED attempt
    /\ futDone' = Referenced(futDone, client)
    /\ did_first_sync' = FALSE
    /\ idx' = 0
    /\ UNCHANGED <<progVars, readOk, placeholderSeen, client, sessions, device_info, device,
                   raw_value, calls, rangeN, exc, reads, established, notFound, cleared,
                   dcInFetch, readsAtSignal, modelOk>>

\* ------------------------------------------ _get_device_characteristics
\* The statements after the loop without the name fallback.
IdentityTailNoFallback(info) ==
    IF MemberTruthy(info.model) THEN [info EXCEPT !.did_first_sync = TRUE] ELSE info

\* The statements after the loop: the name fallback, did_first_sync, and
\* the copy of every field of device_info to the device.
IdentityTail(info) ==
    LET named == IF info.name = STR_EMPTY
                   THEN [info EXCEPT !.name = friendly_name(info)] ELSE info
    IN  IF MemberTruthy(named.model) THEN [named EXCEPT !.did_first_sync = TRUE] ELSE named

\* The loop body without the test for the serial placeholder.
AssignFieldNoPlaceholderCheck(info, name, text) ==
    CASE name = "manufacturer" -> [info EXCEPT !.manufacturer = text]
      [] name = "firmware_rev" -> [info EXCEPT !.fw_version = text]
      [] name = "device_name"  -> [info EXCEPT !.name = text]
      [] name = "serial_nr"    -> [info EXCEPT !.identifier = text]
      [] OTHER -> info

\* The branch of the loop body that stores a decoded identity text.
AssignField(info, name, text) ==
    CASE name = "manufacturer" -> [info EXCEPT !.manufacturer = text]
      [] name = "firmware_rev" -> [info EXCEPT !.fw_version = text]
      [] name = "device_name"  -> [info EXCEPT !.name = text]
      [] name = "serial_nr"    ->
            IF text # STR_SERIAL_NUMBER THEN [info EXCEPT !.identifier = text] ELSE info
      [] OTHER -> info

\* The loop over device_info_characteristics skips a characteristic when
\* the local did_first_sync is set (the firmware exception is commented out).
SkipIdentity(first_sync_done, name) == first_sync_done

CopyToDevice(info) == <<[device[1] EXCEPT !.info = info]>>

\* The fetch phase starts: device_info.address, the local did_first_sync,
\* and either the model read is issued or, every characteristic being
\* skipped, the tail runs at once.
BeginFetch ==
    /\ pc = "enter"
    /\ did_first_sync' = device_info.did_first_sync
    /\ LET info == [device_info EXCEPT !.address = Address]
       IN  IF ~device_info.did_first_sync
             THEN /\ device_info' = info
                  /\ pc' = "model"
                  /\ idx' = 0
                  /\ UNCHANGED device
             ELSE IF \A i \in 1..Len(device_info_characteristics) :
                        SkipIdentity(TRUE, device_info_characteristics[i].name)
                    THEN /\ device_info' = IdentityTail(info)
                         /\ device' = CopyToDevice(IdentityTail(info))
                         /\ pc' = "services"
                         /\ idx' = 0
                    ELSE /\ device_info' = info
                         /\ pc' = "ident"
                         /\ idx' = CHOOSE i \in 1..Len(device_info_characteristics) :
                                     /\ ~SkipIdentity(TRUE, device_info_characteristics[i].name)
                                     /\ \A j \in 1..(i - 1) :
                                          SkipIdentity(TRUE, device_info_characteristics[j].name)
                         /\ UNCHANGED device
    /\ UNCHANGED <<progVars, client, sessions, futDone, raw_value, calls, attempt, rangeN,
                   exc, hist>>

\* The model read with a BleakError handler that goes on to the loop over
\* the identity characteristics instead of returning.
ModelReadGoesOn ==
    /\ pc = "model"
    /\ disconnect_future \notin futDone
    /\ \E r \in ReadResults(ModelPayloads) :
         /\ reads' = Append(reads, "CHAR_MODEL_NUMBER")
         /\ notFound' = (notFound \/ (r.kind = "BleakError" /\ r.msg = "not found"))
         /\ modelOk' = (r.kind = "ok" /\ Utf8Valid(r.data))
         /\ IF r.kind = "BleakError"
              THEN /\ pc' = DerefPc("ident")
                   /\ idx' = 1
                   /\ exc' = DerefExc(exc)
                   /\ UNCHANGED <<device_info, raw_value>>
              ELSE IF ~Utf8Valid(r.data)
                     THEN /\ exc' = Exc("UnicodeDecodeError", "")
                          /\ pc' = "finally"
                          /\ UNCHANGED <<device_info, raw_value, idx>>
                     ELSE LET res == from_raw_value(Strip(Utf8Decode(r.data)), raw_value)
                          IN  /\ device_info' = [device_info EXCEPT !.model = res.member]
                              /\ raw_value' = res.raw
                              /\ pc' = DerefPc("ident")
                              /\ idx' = 1
                              /\ exc' = DerefExc(exc)
    /\ UNCHANGED <<progVars, readOk, placeholderSeen, client, sessions, futDone, device,
                   calls, attempt, rangeN, did_first_sync, outcomes, established, cleared,
                   dcInFetch, readsAtSignal>>

\* The read of CHAR_MODEL_NUMBER completes: BleakError returns from the
\* identity fetch; bytes that do not decode raise; otherwise the stripped
\* text resolves the model.
ModelRead ==
    /\ pc = "model"
    /\ disconnect_future \notin futDone
    /\ \E r \in ReadResults(ModelPayloads) :
         /\ reads' = Append(reads, "CHAR_MODEL_NUMBER")
         /\ notFound' = (notFound \/ (r.kind = "BleakError" /\ r.msg = "not found"))
         /\ modelOk' = (r.kind = "ok" /\ Utf8Valid(r.data))
         /\ IF r.kind = "BleakError"
              THEN /\ pc' = "services"
                   /\ UNCHANGED <<device_info, raw_value, exc, idx>>
              ELSE IF ~Utf8Valid(r.data)
                     THEN /\ exc' = Exc("UnicodeDecodeError", "")
                          /\ pc' = "finally"
                          /\ UNCHANGED <<device_info, raw_value, idx>>
                     ELSE LET res == from_raw_value(Strip(Utf8Decode(r.data)), raw_value)
                          IN  /\ device_info' = [device_info EXCEPT !.model = res.member]
                              /\ raw_value' = res.raw
                              /\ pc' = DerefPc("ident")
                              /\ idx' = 1
                              /\ exc' = DerefExc(exc)
    /\ UNCHANGED <<progVars, readOk, placeholderSeen, client, sessions, futDone, device,
                   calls, attempt, rangeN, did_first_sync, outcomes, established, cleared,
                   dcInFetch, readsAtSignal>>

\* The read of one identity characteristic completes: BleakError goes on to
\* the next characteristic, a payload is decoded and stored; after the last
\* one the tail runs.
IdentRead ==
    /\ pc = "ident"
    /\ disconnect_future \notin futDone
    /\ LET ch == device_info_characteristics[idx]
       IN  \E r \in ReadResults(IdentityPayloads(ch.name)) :
             /\ reads' = Append(reads, ch.uuid)
             /\ notFound' = (notFound \/ (r.kind = "BleakError" /\ r.msg = "not found"))
             /\ placeholderSeen' =
                  (placeholderSeen \/ (ch.name = "serial_nr" /\ r.kind = "ok"
                                         /\ Utf8Decode(r.data) = STR_SERIAL_NUMBER))
             /\ LET info == IF r.kind = "BleakError" THEN device_info
                            ELSE AssignField(device_info, ch.name, Utf8Decode(r.data))
                    rest == {i \in (idx + 1)..Len(device_info_characteristics) :
                                ~SkipIdentity(did_first_sync, device_info_characteristics[i].name)}
                IN  IF rest = {}
                      THEN /\ device_info' = IdentityTail(info)
                           /\ device' = CopyToDevice(IdentityTail(info))
                           /\ pc' = "services"
                           /\ UNCHANGED <<idx, exc>>
                      ELSE /\ device_info' = info
                           /\ idx' = CHOOSE i \in rest : \A j \in rest : i <= j
                           /\ pc' = DerefPc("ident")
                           /\ exc' = DerefExc(exc)
                           /\ UNCHANGED device
    /\ UNCHANGED <<progVars, readOk, client, sessions, futDone, raw_value, calls, attempt,
                   rangeN, did_first_sync, outcomes, established, cleared, dcInFetch,
                   readsAtSignal, modelOk>>

\* ----------------------------------------- _get_service_characteristics
\* The first position at or after i of a characteristic the loop reads.
NextSensor(i) ==
    LET rest == {j \in i..Len(services) :
                    services[j] \in sensors_characteristics /\ services[j] \in DOMAIN sensor_decoders}
    IN  IF rest = {} THEN Len(services) + 1 ELSE CHOOSE j \in rest : \A k \in rest : j <= k

\* svcs = self._client.services: None has no services (AttributeError); a
\* client whose link is down may have
\* dropped its services, and the property then raises BleakError ("Service
\* Discovery has not been performed yet"); otherwise the loop reaches its
\* first sensor characteristic, or ends.
GetServices ==
    /\ pc = "services"
    /\ \/ /\ IF client = << >>
               THEN /\ exc' = Exc("AttributeError", "")
                    /\ pc' = "finally"
                    /\ UNCHANGED idx
               ELSE /\ idx' = NextSensor(1)
                    /\ pc' = IF NextSensor(1) > Len(services) THEN "finally" ELSE "sensors"
                    /\ UNCHANGED exc
       \/ /\ client # << >>
          /\ ~is_connected
          /\ exc' = Exc("BleakError", "other")
          /\ pc' = "finally"
          /\ UNCHANGED idx
    /\ UNCHANGED <<progVars, client, sessions, futDone, device_info, device, raw_value,
                   calls, attempt, rangeN, did_first_sync, hist>>

\* The read of one sensor characteristic completes: BleakError goes on to
\* the next one; a payload goes through its decoder, whose struct.error is
\* not caught, and the reading is stored in the device's sensors.
SensorRead ==
    /\ pc = "sensors"
    /\ disconnect_future \notin futDone
    /\ LET uuid == services[idx]
       IN  \E r \in ReadResults(SensorPayloads(uuid)) :
             /\ reads' = Append(reads, uuid)
             /\ notFound' = (notFound \/ (r.kind = "BleakError" /\ r.msg = "not found"))
             /\ LET d == DecodeHandler(sensor_decoders[uuid], r.data)
                IN  IF r.kind # "BleakError" /\ d.error
                      THEN /\ exc' = Exc("struct.error", "")
                           /\ pc' = "finally"
                           /\ UNCHANGED <<device, idx, readOk>>
                      ELSE /\ device' = IF r.kind = "BleakError" THEN device
                                        ELSE <<[device[1] EXCEPT
                                                  !.sensors = DictUpdate(@, d.name, d.res)]>>
                           /\ readOk' = IF r.kind = "BleakError" THEN readOk
                                        ELSE readOk \cup {d.name}
                           /\ idx' = NextSensor(idx + 1)
                           /\ pc' = IF NextSensor(idx + 1) > Len(services)
                                      THEN "finally" ELSE DerefPc("sensors")
                           /\ exc' = IF NextSensor(idx + 1) > Len(services)
                                       THEN exc ELSE DerefExc(exc)
    /\ UNCHANGED <<progVars, placeholderSeen, client, sessions, futDone, device_info,
                   raw_value, calls, attempt, rangeN, did_first_sync, outcomes, established,
                   cleared, dcInFetch, readsAtSignal, modelOk>>

\* ------------------------------------------------- the race of the fetch
\* The link of a client drops: its disconnected callback completes the
\* future it was bound to. The event loop delivers this only while the task
\* is suspended.
TransportDisconnect ==
    /\ Suspended
    /\ \E c \in sessions :
         /\ sessions' = sessions \ {c}
         /\ futDone' = handle_disconnect(c, futDone)
         /\ dcInFetch' = (dcInFetch \/ (InFetch /\ c = client))
         /\ readsAtSignal' =
              IF InFetch /\ disconnect_future \notin futDone
                         /\ disconnect_future \in handle_disconnect(c, futDone)
                THEN <<Len(reads)>> ELSE readsAtSignal
    /\ UNCHANGED <<progVars, readOk, placeholderSeen, client, device_info, device,
                   raw_value, pc, calls, attempt, rangeN, exc, did_first_sync, idx,
                   outcomes, reads, established, notFound, cleared, modelOk>>

\* interrupt(disconnect_future, DisconnectedError, ...): the done future
\* cancels the task in its read and the context raises DisconnectedError.
Interrupt ==
    /\ InFetch
    /\ disconnect_future \in futDone
    /\ exc' = Exc("DisconnectedError", "")
    /\ pc' = "finally"
    /\ UNCHANGED <<progVars, client, sessions, futDone, device_info, device, raw_value,
                   calls, attempt, rangeN, did_first_sync, idx, hist>>

\* asyncio_timeout(UPDATE_TIMEOUT): the deadline cancels the task in its
\* read and the context raises TimeoutError. A disconnect future that is
\* already done has cancelled the task first.
Timeout ==
    /\ InFetch
    /\ disconnect_future \notin futDone
    /\ exc' = Exc("TimeoutError", "")
    /\ pc' = "finally"
    /\ UNCHANGED <<progVars, client, sessions, futDone, device_info, device, raw_value,
                   calls, attempt, rangeN, did_first_sync, idx, hist>>

\* ---------------------------------- the except and finally of _update_device
\* "not found" in str(err), for a BleakError
ClearsCache(e) == e.kind = "BleakError" /\ e.msg = "not found"
\* The release without regard to the persistent flag.
ReleasesClientAlways == TRUE
\* The release at the end of the try body instead of in the finally clause.
ReleasesClientOnSuccess == ~persistent /\ exc = NoExc
\* if not self._persistent
ReleasesClient == ~persistent

\* The try statement ends: a BleakError naming a missing characteristic
\* clears the client's cache; the finally clause disconnects and drops the
\* client unless persistent; then the device is returned or the error goes
\* on to update_device. Both clauses call through self._client, so a client
\* of None turns the exit into an AttributeError.
Finally ==
    /\ pc = "finally"
    /\ LET uses == ClearsCache(exc) \/ ReleasesClient
           e    == IF uses /\ client = << >> THEN Exc("AttributeError", "") ELSE exc
       IN  /\ cleared' = (cleared \/ (ClearsCache(exc) /\ client # << >>))
           /\ IF ReleasesClient /\ client # << >>
                THEN /\ sessions' = sessions \ {client}
                     /\ futDone' = {}
                     /\ client' = << >>
                ELSE /\ futDone' = IF e = NoExc THEN Referenced(futDone, client) ELSE futDone
                     /\ UNCHANGED <<client, sessions>>
           /\ exc' = e
           /\ IF e = NoExc
                THEN /\ pc' = "returned"
                     /\ outcomes' = Append(outcomes, NoExc)
                ELSE /\ pc' = "handler"
                     /\ UNCHANGED outcomes
    /\ did_first_sync' = FALSE
    /\ idx' = 0
    /\ reads' = << >>
    /\ readsAtSignal' = << >>
    /\ dcInFetch' = FALSE
    /\ modelOk' = FALSE
    /\ placeholderSeen' = FALSE
    /\ UNCHANGED <<progVars, readOk, device_info, device, raw_value, calls, attempt, rangeN,
                   established, notFound>>

\* --------------------------------------------------------------- disconnect
\* disconnect(), called between updates: a connected client is disconnected
\* and dropped; otherwise nothing changes.
Disconnect ==
    /\ Idle
    /\ client # << >>
    /\ IF is_connected
         THEN /\ ClientDisconnect(client)
              /\ client' = << >>
         ELSE UNCHANGED <<client, sessions, futDone>>
    /\ UNCHANGED <<progVars, device_info, device, raw_value, pc, calls, attempt, rangeN,
                   exc, did_first_sync, idx, hist>>

Next ==
    \/ UpdateDevice
    \/ LoopHead
    \/ CloseStale
    \/ EstablishOk
    \/ EstablishFail
    \/ BeginFetch
    \/ ModelRead
    \/ IdentRead
    \/ GetServices
    \/ SensorRead
    \/ TransportDisconnect
    \/ Interrupt
    \/ Timeout
    \/ Finally
    \/ ExceptClauses
    \/ Disconnect

Spec == Init /\ [][Next]_vars

\* The steps of the update task itself. The event loop runs a task that is
\* ready; close_stale_connections_by_address and establish_connection
\* complete or fail; a read completes, or the deadline or the disconnect
\* future cancels it.
TaskStep ==
    \/ LoopHead
    \/ CloseStale
    \/ EstablishOk
    \/ EstablishFail
    \/ BeginFetch
    \/ ModelRead
    \/ IdentRead
    \/ GetServices
    \/ SensorRead
    \/ Interrupt
    \/ Timeout
    \/ Finally
    \/ ExceptClauses

SpecLive == Init /\ [][Next]_vars /\ WF_vars(TaskStep)

\* ------------------------------------- disconnect() during an update
\* async_unload_entry calls disconnect() while the update task is suspended
\* in an await: a connected client is told to disconnect (the link goes
\* down and its callback runs), and disconnect() is suspended in that await.
UnloadBegin ==
    /\ dpc = "idle"
    /\ Suspended
    /\ ~Idle
    /\ IF is_connected
         THEN /\ ClientDisconnect(client)
              /\ dpc' = "closing"
         ELSE /\ dpc' = "done"
              /\ UNCHANGED <<sessions, futDone>>
    /\ UNCHANGED <<persistent, max_attempts, services, arg, ret, client, device_info,
                   device, raw_value, pc, calls, attempt, rangeN, exc, did_first_sync, idx,
                   hist>>

\* disconnect() resumes after client.disconnect(): self._client = None,
\* whatever self._client holds by now.
UnloadEnd ==
    /\ dpc = "closing"
    /\ Suspended
    /\ client' = << >>
    /\ dpc' = "done"
    /\ UNCHANGED <<persistent, max_attempts, services, arg, ret, sessions, futDone,
                   device_info, device, raw_value, pc, calls, attempt, rangeN, exc,
                   did_first_sync, idx, hist>>

NextUnload ==
    \/ UpdateDevice
    \/ TaskStep
    \/ TransportDisconnect
    \/ Disconnect
    \/ UnloadBegin
    \/ UnloadEnd

SpecUnload == Init /\ [][NextUnload]_vars

\* ------------------------------------------------- the config entry's setup
MAX_RETRIES_AFTER_STARTUP == 5

\* The coordinator's instance: persistent, with the default cap of the
\* constructor, which is at least one attempt.
InitSetup ==
    /\ persistent = TRUE
    /\ max_attempts \in 1..MaxAttempts
    /\ client = << >>
    /\ sessions = {}
    /\ futDone = {}
    /\ device_info = TDDeviceInfoDefaults
    /\ device = << >>
    /\ raw_value = RawValueInit
    /\ services \in ServiceLists
    /\ pc = "idle"
    /\ calls = 0
    /\ attempt = 0
    /\ rangeN = 0
    /\ exc = NoExc
    /\ did_first_sync = FALSE
    /\ idx = 0
    /\ outcomes = << >>
    /\ reads = << >>
    /\ established = FALSE
    /\ notFound = FALSE
    /\ cleared = FALSE
    /\ dcInFetch = FALSE
    /\ readsAtSignal = << >>
    /\ modelOk = FALSE
    /\ readOk = {}
    /\ placeholderSeen = FALSE
    /\ arg = NoArg
    /\ ret = << >>
    /\ dpc = "idle"

\* The first refresh has ended, whatever its result.
FirstRefreshOver == calls = 1 /\ pc \in {"returned", "raised"}
\* async_config_entry_first_refresh has returned: it raises
\* ConfigEntryNotReady, and async_setup_entry ends there, unless the update
\* returned data.
FirstRefreshDone == calls = 1 /\ pc = "returned"

\* await coordinator.async_config_entry_first_refresh(): the one update of
\* the setup.
FirstRefresh ==
    /\ calls = 0
    /\ UpdateDevice

\* coordinator.td.set_max_attempts(MAX_RETRIES_AFTER_STARTUP), the
\* statement after the first refresh.
SetMaxAttempts ==
    /\ FirstRefreshDone
    /\ max_attempts # MAX_RETRIES_AFTER_STARTUP
    /\ max_attempts' = MAX_RETRIES_AFTER_STARTUP
    /\ UNCHANGED <<persistent, services, arg, ret, dpc, client, sessions, futDone, device_info,
                   device, raw_value, pc, calls, attempt, rangeN, exc, did_first_sync, idx,
                   hist>>

\* A scheduled poll of the coordinator, which runs once the entry is set up.
Poll ==
    /\ calls >= 1
    /\ max_attempts = MAX_RETRIES_AFTER_STARTUP
    /\ UpdateDevice

NextSetup ==
    \/ FirstRefresh
    \/ SetMaxAttempts
    \/ Poll
    \/ TaskStep
    \/ TransportDisconnect

SpecSetup == InitSetup /\ [][NextSetup]_vars

\* ------------------------------------- the decoders applied on their own
\* The longest buffer of the wrong width handed to a decoder.
MaxLen == 3

Bytes == 0..255
\* The bytes of the buffers whose width matches no format.
SampleBytes == {0, 50, 100, 127, 128, 156, 255}
RECURSIVE SeqsUpTo(_, _)
SeqsUpTo(S, n) ==
    IF n = 0 THEN {<< >>}
    ELSE LET shorter == SeqsUpTo(S, n - 1)
         IN  shorter \cup {Append(q, b) : q \in {x \in shorter : Len(x) = n - 1}, b \in S}

\* Every buffer of one byte and of two bytes, and sample buffers of every
\* length up to MaxLen.
Buffers ==
    {<<a>> : a \in Bytes} \cup {<<a, b>> : a \in Bytes, b \in Bytes}
        \cup SeqsUpTo(SampleBytes, MaxLen)

\* max_value of _decode_attr: None, as every entry of sensor_decoders has
\* it, or a maximum of 1000.0 given to a pressure decoder.
MaxValues == {<< >>, <<<<1000, 1>>>>}
ConfiguredMax(uuid) ==
    IF uuid \in {"CHAR_PRESSURE", "CHAR_MAXPRESSURE"} THEN MaxValues ELSE {<< >>}

\* Model texts as the device sends them: the known model, bare and padded
\* with whitespace, in lower case, with a blank inside, cut short, extended,
\* "XYZ", the empty text and a blank one.
ModelTexts ==
    {STR_TDWLB_LCR03F,
     <<32>> \o STR_TDWLB_LCR03F,
     STR_TDWLB_LCR03F \o <<13, 10>>,
     <<9, 32>> \o STR_TDWLB_LCR03F \o <<32, 10>>,
     <<116, 100, 119, 108, 98, 45, 108, 99, 114, 48, 51, 102>>,
     <<84, 68, 87, 76, 66, 45, 32, 76, 67, 82, 48, 51, 70>>,
     <<84, 68, 87, 76, 66>>,
     STR_TDWLB_LCR03F \o <<50>>,
     <<88, 89, 90>>,
     << >>,
     <<32, 32>>}

DecodeInputs ==
    {i \in {[op |-> "decode", uuid |-> u, max_value |-> m, data |-> d] :
               u \in sensors_characteristics, m \in MaxValues, d \in Buffers} :
        i.max_value \in ConfiguredMax(i.uuid)}
ResolveInputs ==
    {[op |-> "resolve", uuid |-> "CHAR_MODEL_NUMBER", max_value |-> << >>, data |-> t] :
        t \in ModelTexts}

\* A fresh instance with its device created, and one input.
InitDecode ==
    /\ persistent = FALSE
    /\ max_attempts = 1
    /\ client = << >>
    /\ sessions = {}
    /\ futDone = {}
    /\ device_info = TDDeviceInfoDefaults
    /\ device = <<TDDeviceDefaults>>
    /\ raw_value = RawValueInit
    /\ services \in ServiceLists
    /\ pc = "idle"
    /\ calls = 0
    /\ attempt = 0
    /\ rangeN = 0
    /\ exc = NoExc
    /\ did_first_sync = FALSE
    /\ idx = 0
    /\ outcomes = << >>
    /\ reads = << >>
    /\ established = FALSE
    /\ notFound = FALSE
    /\ cleared = FALSE
    /\ dcInFetch = FALSE
    /\ readsAtSignal = << >>
    /\ modelOk = FALSE
    /\ readOk = {}
    /\ placeholderSeen = FALSE
    /\ arg \in DecodeInputs \cup ResolveInputs
    /\ ret = << >>
    /\ dpc = "idle"

\* The decoder of a characteristic, made by _decode_attr with max_value.
DecoderOf(uuid, max_value) == [sensor_decoders[uuid] EXCEPT !.max_value = max_value]

\* self._device.sensors.update(sensor_decoders[uuid](data)): the handler
\* runs on the buffer and its reading is stored, or struct.error is raised.
DecodeStep ==
    /\ arg.op = "decode"
    /\ ret = << >>
    /\ LET d == DecodeHandler(DecoderOf(arg.uuid, arg.max_value), arg.data)
       IN  /\ ret' = <<d>>
           /\ IF d.error
                THEN /\ exc' = Exc("struct.error", "")
                     /\ UNCHANGED device
                ELSE /\ device' = <<[device[1] EXCEPT !.sensors = DictUpdate(@, d.name, d.res)]>>
                     /\ UNCHANGED exc
    /\ UNCHANGED <<persistent, max_attempts, services, arg, dpc, client, sessions, futDone,
                   device_info, raw_value, pc, calls, attempt, rangeN, did_first_sync, idx,
                   hist>>

\* device_info.model = TDDeviceType.from_raw_value(data.decode("utf-8").strip())
ResolveStep ==
    /\ arg.op = "resolve"
    /\ ret = << >>
    /\ LET res == from_raw_value(Strip(Utf8Decode(arg.data)), raw_value)
       IN  /\ ret' = <<res.member>>
           /\ device_info' = [device_info EXCEPT !.model = res.member]
           /\ raw_value' = res.raw
    /\ UNCHANGED <<persistent, max_attempts, services, arg, dpc, client, sessions, futDone,
                   device, pc, calls, attempt, rangeN, exc, did_first_sync, idx, hist>>

NextDecode ==
    \/ DecodeStep
    \/ ResolveStep

SpecDecode == InitDecode /\ [][NextDecode]_vars

\* ------------------------------------------- two devices in one process
\* Another instance resolves the model of its own device: from_raw_value
\* runs on the same members of TDDeviceType, which every instance shares.
ResolveOther ==
    /\ arg.op = "resolve"
    /\ ret # << >>
    /\ \E t \in ModelTexts :
         raw_value' = from_raw_value(Strip(Utf8Decode(t)), raw_value).raw
    /\ UNCHANGED <<persistent, max_attempts, services, arg, ret, dpc, client, sessions,
                   futDone, device_info, device, pc, calls, attempt, rangeN, exc,
                   did_first_sync, idx, hist>>

InitTwoDevices == InitDecode

NextTwoDevices ==
    \/ DecodeStep
    \/ ResolveStep
    \/ ResolveOther

SpecTwoDevices == InitTwoDevices /\ [][NextTwoDevices]_vars

\* ==================================================================
\* The claims
\* ==================================================================
ConnectivityKinds == {"BleakError", "DisconnectedError"}
Last(q) == q[Len(q)]

\* C1: when every attempt of a call failed with BleakError or
\* DisconnectedError and max_attempts >= 1, the call has made exactly
\* max_attempts attempts when it raises, and it raises the error of the
\* last attempt.
C1_ExhaustedRaisesLast ==
    (/\ pc = "raised"
     /\ max_attempts >= 1
     /\ outcomes # << >>
     /\ \A i \in 1..Len(outcomes) : outcomes[i].kind \in ConnectivityKinds)
    => /\ Len(outcomes) = max_attempts
       /\ exc = Last(outcomes)

C1_Witness ==
    /\ pc = "raised"
    /\ max_attempts = 2
    /\ Len(outcomes) = 2
    /\ outcomes[1].kind = "DisconnectedError"
    /\ outcomes[2].kind = "BleakError"
    /\ exc.kind = "BleakError"

\* C2: an attempt that failed with an error that is neither a transport
\* error, a disconnect nor a timeout is the last attempt of its call: the
\* call has raised that very error, whatever attempts remain.
C2_OtherErrorNotRetried ==
    \A i \in 1..Len(outcomes) :
        outcomes[i].kind \notin {"None", "BleakError", "DisconnectedError", "TimeoutError"}
        => /\ i = Len(outcomes)
           /\ pc = "raised"
           /\ exc = outcomes[i]

C2_Witness ==
    /\ pc = "raised"
    /\ max_attempts = 2
    /\ Len(outcomes) = 1
    /\ exc.kind = "struct.error"

\* C3 (as claimed): a call raises a timeout to its caller only when no
\* attempt remains, a timeout with attempts left being followed by another
\* attempt.
C3_TimeoutRetried ==
    (pc = "raised" /\ exc.kind = "TimeoutError") => Len(outcomes) = max_attempts

\* C4: once the disconnect future of an attempt completes during its fetch
\* phase, no further characteristic is read in that attempt and the attempt
\* ends with DisconnectedError; an attempt that ended with DisconnectedError
\* leaves no connected client behind; and the attempt after it has
\* established a connection of its own before its fetch phase starts.
C4_DisconnectAbandonsFetch ==
    /\ readsAtSignal # << >> =>
          /\ Len(reads) = readsAtSignal[1]
          /\ pc \in {"model", "ident", "sensors", "finally"}
          /\ pc = "finally" => exc.kind = "DisconnectedError"
    /\ (pc = "handler" /\ exc.kind = "DisconnectedError") =>
          /\ ~(client # << >> /\ client \in sessions)
          /\ sessions = {}
    /\ (/\ outcomes # << >>
        /\ Last(outcomes).kind = "DisconnectedError"
        /\ pc \in {"enter", "model", "ident", "services", "sensors", "finally"}) =>
          /\ established
          /\ client = disconnect_future

C4_Witness ==
    /\ persistent
    /\ Len(outcomes) = 1
    /\ outcomes[1].kind = "DisconnectedError"
    /\ pc = "sensors"
    /\ reads # << >>
    /\ established

\* C5 (as claimed): whenever the held client's link drops during the fetch
\* phase of an attempt, the disconnect future of that attempt is done, and
\* the phase ends with DisconnectedError.
C5_DisconnectCompletesSignal ==
    /\ (pc \in {"model", "ident", "sensors"} /\ dcInFetch) => disconnect_future \in futDone
    /\ (pc = "finally" /\ dcInFetch) => exc.kind = "DisconnectedError"

\* C6: in non-persistent mode no client is held and no transport session
\* is open whenever control is outside the body of an attempt: in the
\* except clauses, at the loop head, and after the call returned or raised.
C6_NoSessionOutsideAttempt ==
    (~persistent /\ pc \in {"idle", "loop", "handler", "returned", "raised"})
    => /\ client = << >>
       /\ sessions = {}

C6_Witness ==
    /\ ~persistent
    /\ pc = "handler"
    /\ established
    /\ exc.kind = "TimeoutError"

IdentityUuids ==
    {device_info_characteristics[i].uuid : i \in 1..Len(device_info_characteristics)}
ReadSet == {reads[i] : i \in 1..Len(reads)}

\* C7 (as claimed): when the identity fetch of an attempt has finished,
\* either first-sync-complete was false at its start and every identity
\* characteristic has been read, or it was true and the firmware revision
\* has been read and nothing else.
C7_IdentityFetchPolicy ==
    pc = "services" =>
        IF did_first_sync
          THEN reads = <<"CHAR_FIRMWARE_REV">>
          ELSE IdentityUuids \subseteq ReadSet

\* C8: first-sync-complete becomes true only in the step that finishes an
\* identity fetch whose model read returned a model; and while it is false,
\* every fetch phase starts with the model read.
C8_FirstSyncStep ==
    (~device_info.did_first_sync /\ device_info'.did_first_sync)
    => /\ modelOk
       /\ pc = "ident"
       /\ pc' = "services"
       /\ reads[1] = "CHAR_MODEL_NUMBER"

C8_ModelReadFirst ==
    (~device_info.did_first_sync /\ pc \in {"model", "ident", "services", "sensors"})
    => \/ pc = "model" /\ reads = << >>
       \/ reads # << >> /\ reads[1] = "CHAR_MODEL_NUMBER"

C8_FirstSyncOnlyWithModel == [][C8_FirstSyncStep]_vars /\ []C8_ModelReadFirst

C8_Witness ==
    /\ attempt = 1
    /\ outcomes # << >>
    /\ outcomes[1].kind = "DisconnectedError"
    /\ pc = "services"
    /\ modelOk
    /\ ~did_first_sync
    /\ device_info.did_first_sync
    /\ device_info.model = "UNKNOWN"

\* C9 (as claimed): a sensor buffer of the wrong width never makes an
\* attempt fail: no attempt ends with the decoder's struct.error and no
\* call raises it.
C9_DecodeErrorContained ==
    /\ exc.kind # "struct.error"
    /\ \A i \in 1..Len(outcomes) : outcomes[i].kind # "struct.error"

\* C10 (as claimed): an attempt in which a characteristic read failed with
\* "not found" has cleared the client's cache by the time it ends.
C10_NotFoundClearsCache ==
    (pc \in {"handler", "returned"} /\ notFound) => cleared

\* C11 (as claimed): an attempt in which a characteristic read raised a
\* "not found" transport error fails, so no call returns a snapshot from
\* such an attempt.
C11_ReadErrorFailsAttempt ==
    pc = "returned" => ~notFound

\* C12: establish_connection starts only in the step that completes the
\* stale cleanup of the same attempt, and a client is obtained only from
\* establish_connection.
C12_EstablishStep ==
    /\ (pc' = "establish" /\ pc # "establish")
          => (pc = "stale" /\ calls' = calls /\ attempt' = attempt)
    /\ (client' # client /\ client' # << >>)
          => (pc = "establish" /\ client' = disconnect_future)

C12_StaleCleanupFirst == [][C12_EstablishStep]_vars

C12_Witness ==
    /\ attempt = 1
    /\ established
    /\ client = disconnect_future
    /\ pc = "model"

\* C13: in persistent mode the exit of an attempt leaves the client and its
\* session as they are; an attempt that starts with a connected client goes
\* straight to the fetch phase with that client, the stale cleanup being
\* entered only by an attempt that starts without one; and no step of the
\* update task closes a session (only disconnect() or the link itself do).
C13_PersistentStep ==
    persistent =>
        /\ pc = "finally" => (client' = client /\ sessions' = sessions)
        /\ (pc = "loop" /\ attempt < rangeN /\ client # << >> /\ client \in sessions)
              => (pc' = "enter" /\ client' = client /\ sessions' = sessions)
        /\ pc' = "stale"
              => (pc = "stale" \/ (pc = "loop" /\ ~(client # << >> /\ client \in sessions)))
        /\ (pc' # pc) => (sessions \subseteq sessions')

C13_PersistentKeepsSession == [][C13_PersistentStep]_vars

C13_Witness ==
    /\ persistent
    /\ calls = 2
    /\ attempt = 0
    /\ pc = "sensors"
    /\ ~established
    /\ client = <<1, 0>>
    /\ client \in sessions

\* C14 (as claimed): the sensor mapping of a returned snapshot has a key
\* only for a sensor whose read succeeded during that update_device call.
C14_SensorsOnlyFromThisUpdate ==
    pc = "returned" => DOMAIN device[1].sensors \subseteq readOk

\* C15: once the device exists, no step removes a key from its sensor
\* mapping or takes an identity field that holds a value back to its
\* default; so a call that ends in failure leaves every identity field and
\* sensor key of the cached snapshot in place.
InfoFields == DOMAIN TDDeviceInfoDefaults

C15_Step ==
    device # << >> =>
        /\ device' # << >>
        /\ DOMAIN device[1].sensors \subseteq DOMAIN device'[1].sensors
        /\ \A f \in InfoFields :
              device[1].info[f] # TDDeviceInfoDefaults[f]
                 => device'[1].info[f] # TDDeviceInfoDefaults[f]

C15_FailureKeepsCache == [][C15_Step]_vars

\* The second call has failed without storing a reading of its own, and
\* the snapshot still holds a sensor key and the identity from before.
C15_Witness ==
    /\ pc = "raised"
    /\ calls = 2
    /\ readOk = {}
    /\ device # << >>
    /\ "pressure" \in DOMAIN device[1].sensors
    /\ device[1].info.name # << >>
    /\ device[1].info.did_first_sync

\* C16: the identifier is never the text "Serial Number", on device_info
\* and on the device's info alike.
C16_NoPlaceholderSerial ==
    /\ device_info.identifier # STR_SERIAL_NUMBER
    /\ device # << >> => device[1].info.identifier # STR_SERIAL_NUMBER

\* The serial read of this attempt returned the placeholder, the identity
\* fetch has run to its end, and the identifier is empty.
C16_Witness ==
    /\ placeholderSeen
    /\ pc = "services"
    /\ device_info.identifier = << >>
    /\ device # << >>
    /\ device[1].info.identifier = << >>
    /\ device[1].info.did_first_sync

C17_FallbackStep ==
    (/\ pc = "ident"
     /\ pc' = "services"
     /\ device_info_characteristics[idx].name # "device_name"
     /\ device_info.name = << >>)
        => /\ device_info'.name = STR_TD_PREFIX \o product_name(device_info.model)
           /\ device'[1].info.name = device_info'.name

C17_SyncedNameNonEmpty ==
    (pc = "returned" /\ device[1].info.did_first_sync) => device[1].info.name # << >>

Int16(u) == ((u + 32768) % 65536) - 32768
Int8(u) == ((u + 128) % 256) - 128
FracEq(a, b) == a[1] * b[2] = b[1] * a[2]
\* The divisor each reading is reported with.
ClaimedDivisor(uuid) ==
    CASE uuid \in {"CHAR_PRESSURE", "CHAR_MAXPRESSURE"} -> 10
      [] uuid = "CHAR_TEMPERATURE" -> 100
      [] uuid = "CHAR_BATTERY" -> 1
SensorName(uuid) ==
    CASE uuid = "CHAR_PRESSURE" -> "pressure"
      [] uuid = "CHAR_MAXPRESSURE" -> "maxpressure"
      [] uuid = "CHAR_TEMPERATURE" -> "temperature"
      [] uuid = "CHAR_BATTERY" -> "battery"
Decoded == ret # << >> /\ arg.op = "decode"

C19_SignedFixedPoint ==
    (Decoded /\ arg.max_value = << >>)
        => LET d    == ret[1]
               name == SensorName(arg.uuid)
           IN  /\ (arg.uuid # "CHAR_BATTERY" /\ Len(arg.data) = 2)
                    => /\ ~d.error
                       /\ d.name = name
                       /\ d.res # << >>
                       /\ Int16(arg.data[1] * 256 + arg.data[2]) \in -32768..32767
                       /\ FracEq(d.res[1], <<Int16(arg.data[1] * 256 + arg.data[2]),
                                             ClaimedDivisor(arg.uuid)>>)
                       /\ device[1].sensors = (name :> d.res)
               /\ (arg.uuid = "CHAR_BATTERY" /\ Len(arg.data) = 1)
                    => /\ ~d.error
                       /\ d.name = name
                       /\ d.res # << >>
                       /\ FracEq(d.res[1], <<Int8(arg.data[1]), 1>>)
                       /\ device[1].sensors = (name :> d.res)
               /\ (arg.uuid = "CHAR_PRESSURE" /\ arg.data = <<0, 100>>)
                    => FracEq(d.res[1], <<10, 1>>)
               /\ (arg.uuid = "CHAR_BATTERY" /\ arg.data = <<50>>)
                    => FracEq(d.res[1], <<50, 1>>)

\* Bytes 0xFF 0x9C on the temperature decoder: -100, reported as -1.00.
C19_Witness ==
    /\ Decoded
    /\ arg.uuid = "CHAR_TEMPERATURE"
    /\ arg.max_value = << >>
    /\ arg.data = <<255, 156>>
    /\ device[1].sensors = ("temperature" :> <<<<-100, 100>>>>)

\* The text without the whitespace at its ends, by position.
Trimmed(s) ==
    LET solid == {i \in 1..Len(s) : ~IsSpace(s[i])}
    IN  IF solid = {} THEN << >>
        ELSE SubSeq(s, CHOOSE i \in solid : \A j \in solid : i <= j,
                       CHOOSE i \in solid : \A j \in solid : j <= i)

\* C20: the model resolves to PRESSURE_LCR03F (product name "Pressure
\* LCR03F") exactly when the trimmed text is "TDWLB-LCR03F" in this very
\* case, to UNKNOWN (product name "Unknown") otherwise, and the trimmed
\* text is the raw_value of the member returned.
C20_ModelResolution ==
    (ret # << >> /\ arg.op = "resolve")
        => LET t == Trimmed(arg.data)
               m == ret[1]
           IN  /\ device_info.model = m
               /\ m = (IF t = STR_TDWLB_LCR03F THEN "PRESSURE_LCR03F" ELSE "UNKNOWN")
               /\ product_name(m) =
                     (IF t = STR_TDWLB_LCR03F THEN STR_PRESSURE_LCR03F ELSE STR_UNKNOWN)
               /\ raw_value[m] = [kind |-> "str", text |-> t]

\* The padded model text has resolved to the pressure sensor.
C20_Witness ==
    /\ arg.op = "resolve"
    /\ ret = <<"PRESSURE_LCR03F">>
    /\ arg.data = <<9, 32>> \o STR_TDWLB_LCR03F \o <<32, 10>>
    /\ raw_value["PRESSURE_LCR03F"].text = STR_TDWLB_LCR03F

\* C21: within an attempt the reads come between the acquisition of the
\* connection and the exit of the try statement, the model and identity
\* reads before every sensor read. A read is a step that extends reads.
IsSensorUuid(u) == u \in sensors_characteristics
\* The identity fetch of this attempt has returned.
IdentityFetchDone ==
    \/ did_first_sync
    \/ /\ "CHAR_MODEL_NUMBER" \in ReadSet
       /\ (~modelOk \/ "CHAR_FIRMWARE_REV" \in ReadSet)

C21_ReadStep ==
    (reads' # reads /\ reads' # << >>)
        => /\ InFetch
           /\ client # << >>
           /\ IsSensorUuid(Last(reads')) => (pc = "sensors" /\ IdentityFetchDone)

C21_ReadsInOrder ==
    /\ pc \in {"loop", "stale", "establish", "enter", "handler", "returned", "raised", "idle"}
          => reads = << >>
    /\ \A i \in 1..Len(reads) : \A j \in 1..Len(reads) :
          (i < j /\ IsSensorUuid(reads[i])) => IsSensorUuid(reads[j])
    /\ pc = "sensors" => IdentityFetchDone

C21_AttemptOrder == [][C21_ReadStep]_vars /\ []C21_ReadsInOrder

\* An attempt that connected, read the model, the four identity
\* characteristics and both sensors, and stands before its exit.
C21_Witness ==
    /\ pc = "finally"
    /\ established
    /\ exc = NoExc
    /\ reads = <<"CHAR_MODEL_NUMBER", "CHAR_MANUFACTURER", "CHAR_SERIAL_NUMBER",
                 "CHAR_DEVICE_NAME", "CHAR_FIRMWARE_REV", "CHAR_PRESSURE", "CHAR_BATTERY">>

\* C22: a call with max_attempts >= 1 that has started ends, returned or
\* raised; it makes at most max_attempts attempts; and an attempt that
\* succeeds ends the call in that very step, the next step of the task
\* being a new call.
InAttempt == pc \in {"stale", "establish", "enter", "model", "ident", "services", "sensors",
                     "finally", "handler"}

C22_Terminates == (pc = "loop" /\ rangeN >= 1) ~> (pc \in {"returned", "raised"})

C22_AttemptsBounded ==
    /\ Len(outcomes) <= rangeN
    /\ InAttempt => (attempt < rangeN /\ Len(outcomes) = attempt /\ rangeN = max_attempts)
    /\ pc = "returned" => Last(outcomes) = NoExc

C22_SuccessStep ==
    /\ (outcomes' # outcomes /\ outcomes' # << >> /\ Last(outcomes') = NoExc)
          => (pc = "finally" /\ pc' = "returned")
    /\ (pc = "returned" /\ pc' # "returned") => (pc' = "loop" /\ calls' = calls + 1)

C22_BoundedRetry ==
    C22_Terminates /\ []C22_AttemptsBounded /\ [][C22_SuccessStep]_vars

\* The second and last attempt of a call has succeeded after a first one
\* that failed.
C22_Witness ==
    /\ pc = "returned"
    /\ rangeN = 2
    /\ Len(outcomes) = 2
    /\ outcomes[1] # NoExc

\* C23: the cap changes only in the step after a first refresh that
\* returned data, and then to MAX_RETRIES_AFTER_STARTUP; every attempt of
\* the first refresh runs under the cap of the constructor; after a failed
\* first refresh the cap is never changed; every poll runs under the
\* steady-state cap.
C23_CapStep ==
    max_attempts' # max_attempts
        => /\ calls = 1
           /\ pc = "returned"
           /\ Last(outcomes) = NoExc
           /\ max_attempts' = MAX_RETRIES_AFTER_STARTUP
           /\ UNCHANGED <<pc, calls, client, device>>

C23_CapInv ==
    /\ (calls = 1 /\ pc # "returned")
          => (max_attempts \in 1..MaxAttempts /\ rangeN = max_attempts)
    /\ calls >= 2 => (max_attempts = MAX_RETRIES_AFTER_STARTUP /\ rangeN = max_attempts)

C23_CapAfterFirstRefresh == [][C23_CapStep]_vars /\ []C23_CapInv

\* A poll in an attempt that no constructor cap of the model allows.
C23_Witness ==
    /\ calls = 2
    /\ max_attempts = MAX_RETRIES_AFTER_STARTUP
    /\ attempt >= MaxAttempts
    /\ pc = "model"

\* C24: the RuntimeError after the loop is raised exactly by the calls whose
\* cap is 0 or less, and such a call raises it in its first step, with
\* no attempt made and the client and the sessions untouched.
C24_RuntimeErrorInv ==
    /\ exc.kind = "RuntimeError"
          => (pc = "raised" /\ max_attempts <= 0 /\ rangeN = 0 /\ outcomes = << >>)
    /\ (pc = "raised" /\ rangeN = 0) => exc.kind = "RuntimeError"
    /\ InAttempt => max_attempts >= 1

C24_EmptyLoopStep ==
    (pc = "loop" /\ max_attempts <= 0)
        => /\ pc' = "raised"
           /\ exc'.kind = "RuntimeError"
           /\ UNCHANGED <<client, sessions, device, device_info, established>>

C24_RuntimeErrorOnlyWithoutAttempts ==
    []C24_RuntimeErrorInv /\ [][C24_EmptyLoopStep]_vars

\* A call under a cap of 0 has raised RuntimeError.
C24_Witness ==
    /\ pc = "raised"
    /\ max_attempts = 0
    /\ exc = Exc("RuntimeError", "Should not reach this point")
    /\ client = << >>

\* C25 (as claimed): on a persistent instance, as the coordinator makes it,
\* an update that a disconnect() interleaves with never fails on a client
\* reference of None.
C25_NoAbsentClientUse ==
    persistent => exc.kind # "AttributeError"

\* C26: with update_device calls one after another, at most one transport
\* link is up, and it is the held client's; a link comes up only by
\* establish_connection in an attempt that found no connected client, once
\* per attempt and so at most max_attempts times per call.
C26_OneSession ==
    /\ Cardinality(sessions) <= 1
    /\ sessions \subseteq {client}
    /\ pc = "establish"
          => (~is_connected /\ ~established /\ attempt < rangeN /\ rangeN = max_attempts)

C26_EstablishStep ==
    sessions' # sessions /\ sessions' # {}
        => /\ pc = "establish"
           /\ ~is_connected
           /\ sessions = {}
           /\ sessions' = {<<calls, attempt>>}
           /\ attempt < max_attempts
           /\ ~established /\ established'

C26_SingleConnection == []C26_OneSession /\ [][C26_EstablishStep]_vars

\* The second call of a persistent instance has connected anew after the
\* held client's link had dropped.
C26_Witness ==
    /\ persistent
    /\ calls = 2
    /\ established
    /\ pc = "model"
    /\ client = <<2, 0>>
    /\ sessions = {client}

\* C27 (as claimed): the raw value seen through the model of this device
\* stays the text this device's model was resolved from, whatever models
\* other devices resolve.
C27_RawValueIsolated ==
    (arg.op = "resolve" /\ ret # << >>)
        => device_info.model = ret[1] /\ raw_value[device_info.model].text = Trimmed(arg.data)
====
